---- MODULE Spec2Model ----
(***************************************************************************)
(* Model of q2doc/usage/usage.py: one run of process_usage_blocks over the *)
(* usage blocks of a document.  Every usage strategy executes every block, *)
(* the records a block adds to the strategy are turned into nodes by the   *)
(* strategy's records_to_nodes handler, and update_nodes finally puts the  *)
(* nodes into the doctree.                                                  *)
(*                                                                         *)
(* Strings that the code builds (urls, file names, paths) are sequences of *)
(* tokens, so that concatenation and rstrip are computed, not assumed.     *)
(* An exception that leaves process_usage_blocks is pc = "failed".         *)
(***************************************************************************)
EXTENDS Integers, Sequences, FiniteSets, TLC

\* ------------------------------------------------------------------ bounds
\* number of usage blocks of the document
NumBlocks == 2
\* number of use.init_data / use.init_metadata / use.action records that the
\* code of all the blocks together creates
MaxPush == 3

\* ------------------------------------------------------------ input values
Refs == {"a", "b"}
Sources == {"action", "init_data", "init_metadata"}
BaseUrls == {<<"h">>, <<"h", "/">>}
NoSource == <<>>
DocSource == <<[stem |-> "docs", suffix |-> ""], [stem |-> "tutorial", suffix |-> ".rst"]>>
OutDir == "out"

\* the members of the MetaUsage enumeration, in iteration order
MetaUsage == <<"diagnostic", "cli", "artifact_api", "execution">>

VARIABLES blocks, records, processed_records, handed, doctree, base_url,
          pc, s, b, trace, saves, last

vars == <<blocks, records, processed_records, handed, doctree, base_url,
          pc, s, b, trace, saves, last>>

\* ----------------------------------------------------------------- helpers
InSeq(x, seq) == \E i \in 1..Len(seq) : seq[i] = x

RefsOf(seq) == {seq[i].ref : i \in 1..Len(seq)}

\* ------------------------------------------------------------------- nodes
Node(kind, name, source, factory) ==
    [kind |-> kind, name |-> name, source |-> source, factory |-> factory,
     titles |-> <<>>, examples |-> <<>>, load |-> <<>>,
     relative_url |-> <<>>, absolute_url |-> <<>>, saveas |-> <<>>,
     ref |-> "", preview |-> FALSE]

\* the placeholder that the usage directive leaves in the doctree
UsageNode(name, factory) == Node("usage", name, DocSource, factory)

UsageExampleNode(titles, examples, source) ==
    [Node("example", "", source, FALSE) EXCEPT !.titles = titles, !.examples = examples]

UsageDataNode(load_statement, name) ==
    [Node("data", name, NoSource, FALSE) EXCEPT !.load = load_statement]

UsageMetadataNode(load_statement, preview, name) ==
    [Node("metadata", name, NoSource, FALSE) EXCEPT !.load = load_statement,
                                                    !.preview = preview]

FactoryNode(relative_url, absolute_url, saveas, ref) ==
    [Node("factory", "", NoSource, FALSE) EXCEPT !.relative_url = relative_url,
                                                 !.absolute_url = absolute_url,
                                                 !.saveas = saveas, !.ref = ref]

\* --------------------------------------------------------- usage strategies
\* Scope.push_record: the records of a strategy are a dict keyed by ref, so
\* a ref that is pushed again keeps its place and gets the new record.
PushRecord(recs, r) ==
    IF \E i \in 1..Len(recs) : recs[i].ref = r.ref
    THEN [i \in 1..Len(recs) |-> IF recs[i].ref = r.ref THEN r ELSE recs[i]]
    ELSE Append(recs, r)

\* exec(source): the use.* calls of the block, in order
RECURSIVE Exec(_, _)
Exec(pushes, recs) ==
    IF Len(pushes) = 0 THEN recs
    ELSE Exec(Tail(pushes), PushRecord(recs, Head(pushes)))

\* use.render(): the text rendered from what the strategy has recorded
Render(use, recs) == <<use, Len(recs)>>

\* use._get_record(ref) succeeds only for a ref the strategy holds
HasRecord(recs, ref) == ref \in RefsOf(recs)

GetRecord(recs, ref) == recs[CHOOSE i \in 1..Len(recs) : recs[i].ref = ref]

\* ------------------------------------------------- functions of usage.py
\* str.rstrip(ch): drops every trailing ch
RECURSIVE RStrip(_, _)
RStrip(str, ch) ==
    IF Len(str) > 0 /\ str[Len(str)] = ch
    THEN RStrip(SubSeq(str, 1, Len(str) - 1), ch)
    ELSE str

\* bool(str) of Python: only the empty string is false
Truthy(str) == str # ""

\* get_new_records without the filter on processed_records
get_new_records_all(recs, processed) ==
    IF Len(recs) = 1 THEN [tuple |-> FALSE, items |-> recs]
    ELSE [tuple |-> TRUE, items |-> recs]

\* new_records is a tuple of records, but operator.itemgetter(k)(records)
\* with a single key is records[k] itself, a ScopeRecord and no tuple;
\* tuple = FALSE marks that value, which no for loop can iterate.
get_new_records(recs, processed) ==
    LET new_record_keys == SelectSeq(recs, LAMBDA r : ~InSeq(r.ref, processed))
    IN  IF Len(new_record_keys) = 0 THEN [tuple |-> TRUE, items |-> <<>>]
        ELSE IF Len(new_record_keys) = 1
             THEN [tuple |-> FALSE, items |-> new_record_keys]
             ELSE [tuple |-> TRUE, items |-> new_record_keys]

update_processed_records(new_records, processed) ==
    IF new_records.tuple
    THEN [ok |-> TRUE,
          processed |-> processed \o [i \in 1..Len(new_records.items) |->
                                          new_records.items[i].ref]]
    ELSE [ok |-> FALSE, processed |-> processed]

\* Path(node.source).parts[-2:] must have two parts; doc_name is the stem of
\* the last one
get_docname(node) ==
    IF Len(node.source) < 2
    THEN [ok |-> FALSE, doc_name |-> ""]
    ELSE [ok |-> TRUE, doc_name |-> node.source[Len(node.source)].stem]

\* factories_to_nodes that keeps the trailing slashes of base_url
factories_to_nodes_no_rstrip(nodes, base) ==
    LET node == nodes[Len(nodes)]
        popped == SubSeq(nodes, 1, Len(nodes) - 1)
        dn == get_docname(node)
        name == <<node.name, ".qza">>
        relative_url == <<"results", "/">> \o name
        absolute_url == base \o <<"/", dn.doc_name, "/">> \o relative_url
    IN  IF ~dn.ok THEN [ok |-> FALSE, nodes |-> popped]
        ELSE [ok |-> TRUE,
              nodes |-> Append(popped,
                               FactoryNode(relative_url, absolute_url, name, node.name))]

\* factories_to_nodes that reads the last node and leaves it in the list
factories_to_nodes_no_pop(nodes, base) ==
    LET node == nodes[Len(nodes)]
        dn == get_docname(node)
        name == <<node.name, ".qza">>
        relative_url == <<"results", "/">> \o name
        absolute_url == RStrip(base, "/") \o <<"/", dn.doc_name, "/">> \o relative_url
    IN  IF ~dn.ok THEN [ok |-> FALSE, nodes |-> nodes]
        ELSE [ok |-> TRUE,
              nodes |-> Append(nodes,
                               FactoryNode(relative_url, absolute_url, name, node.name))]

factories_to_nodes(nodes, base) ==
    LET node == nodes[Len(nodes)]
        popped == SubSeq(nodes, 1, Len(nodes) - 1)
        dn == get_docname(node)
        name == <<node.name, ".qza">>
        relative_url == <<"results", "/">> \o name
        absolute_url == RStrip(base, "/") \o <<"/", dn.doc_name, "/">> \o relative_url
    IN  IF ~dn.ok THEN [ok |-> FALSE, nodes |-> popped]
        ELSE [ok |-> TRUE,
              nodes |-> Append(popped,
                               FactoryNode(relative_url, absolute_url, name, node.name))]

\* what a records_to_nodes handler did: whether it returned, the nodes of the
\* block, the use.render() calls, the execution records it looked up and the
\* artifacts it saved
Outcome(ok, nodes, renders, lookups, saved) ==
    [ok |-> ok, nodes |-> nodes, renders |-> renders, lookups |-> lookups,
     saved |-> saved]

diagnostic(new_records, nodes) == Outcome(TRUE, nodes, 0, {}, <<>>)

RECURSIVE execution_loop(_, _, _)
execution_loop(items, out_dir, saved) ==
    IF Len(items) = 0 THEN saved
    ELSE LET record == Head(items)
             path == [dir |-> out_dir, file |-> <<record.ref, ".qza">>]
         IN  IF record.source = "init_metadata" \/ Truthy("init_data")
             THEN execution_loop(Tail(items), out_dir,
                                 Append(saved, [use |-> "execution", ref |-> record.ref,
                                                source |-> record.source, path |-> path]))
             ELSE execution_loop(Tail(items), out_dir, saved)

\* execution with the test written as source == "init_metadata" or
\* source == "init_data"
RECURSIVE execution_loop_only_init(_, _, _)
execution_loop_only_init(items, out_dir, saved) ==
    IF Len(items) = 0 THEN saved
    ELSE LET record == Head(items)
             path == [dir |-> out_dir, file |-> <<record.ref, ".qza">>]
         IN  IF record.source = "init_metadata" \/ record.source = "init_data"
             THEN execution_loop_only_init(Tail(items), out_dir,
                                 Append(saved, [use |-> "execution", ref |-> record.ref,
                                                source |-> record.source, path |-> path]))
             ELSE execution_loop_only_init(Tail(items), out_dir, saved)

execution_only_init(new_records, nodes, base) ==
    LET node == nodes[1]
        dn == get_docname(node)
        out_dir == <<OutDir, dn.doc_name, "results">>
        fac == IF node.factory THEN factories_to_nodes(nodes, base)
               ELSE [ok |-> TRUE, nodes |-> nodes]
    IN  IF ~dn.ok THEN Outcome(FALSE, nodes, 0, {}, <<>>)
        ELSE IF ~fac.ok \/ ~new_records.tuple THEN Outcome(FALSE, fac.nodes, 0, {}, <<>>)
        ELSE Outcome(TRUE, fac.nodes, 0, {}, 
                     execution_loop_only_init(new_records.items, out_dir, <<>>))

execution(new_records, nodes, base) ==
    LET node == nodes[1]
        dn == get_docname(node)
        out_dir == <<OutDir, dn.doc_name, "results">>
        fac == IF node.factory THEN factories_to_nodes(nodes, base)
               ELSE [ok |-> TRUE, nodes |-> nodes]
    IN  IF ~dn.ok THEN Outcome(FALSE, nodes, 0, {}, <<>>)
        ELSE IF ~fac.ok \/ ~new_records.tuple THEN Outcome(FALSE, fac.nodes, 0, {}, <<>>)
        ELSE Outcome(TRUE, fac.nodes, 0, {}, execution_loop(new_records.items, out_dir, <<>>))

RECURSIVE cli_loop(_, _, _, _)
cli_loop(items, nodes, example, source) ==
    IF Len(items) = 0 THEN Outcome(TRUE, nodes, 0, {}, <<>>)
    ELSE IF Head(items).source = "action"
         THEN Outcome(TRUE, <<UsageExampleNode(<<"Command Line">>, <<example>>, source)>>,
                      1, {}, <<>>)
         ELSE cli_loop(Tail(items), nodes, example, source)

\* cli without the break: one render and one node list for every action record
RECURSIVE cli_loop_no_break(_, _, _, _, _)
cli_loop_no_break(items, nodes, example, source, renders) ==
    IF Len(items) = 0 THEN Outcome(TRUE, nodes, renders, {}, <<>>)
    ELSE IF Head(items).source = "action"
         THEN cli_loop_no_break(Tail(items),
                                <<UsageExampleNode(<<"Command Line">>, <<example>>, source)>>,
                                example, source, renders + 1)
         ELSE cli_loop_no_break(Tail(items), nodes, example, source, renders)

cli_no_break(recs, new_records, nodes, source) ==
    IF ~new_records.tuple THEN Outcome(FALSE, nodes, 0, {}, <<>>)
    ELSE cli_loop_no_break(new_records.items, nodes, Render("cli", recs), source, 0)

\* source is the source attribute of the node that UsageExampleNode(...) makes
cli(recs, new_records, nodes, source) ==
    IF ~new_records.tuple THEN Outcome(FALSE, nodes, 0, {}, <<>>)
    ELSE cli_loop(new_records.items, nodes, Render("cli", recs), source)

init_data_node(record) ==
    UsageDataNode(<<record.ref, " = qiime2.Artifact.load('", record.ref, ".qza", "')">>,
                  record.ref)

init_metadata_node(record) ==
    UsageMetadataNode(<<record.ref, " = qiime2.Metadata.load('", record.ref, ".qza", "')">>,
                      TRUE, record.ref)

\* init_data_node and init_metadata_node first look the record up in the
\* execution strategy (exrecs); the lookup raises for a ref it does not hold
RECURSIVE artifact_api_loop(_, _, _, _, _)
artifact_api_loop(items, nodes, example, exrecs, lookups) ==
    IF Len(items) = 0 THEN Outcome(TRUE, nodes, 0, lookups, <<>>)
    ELSE LET record == Head(items)
             held == HasRecord(exrecs, record.ref)
             looked == lookups \cup {[ref |-> record.ref, held |-> held]}
         IN  IF record.source = "init_data"
             THEN IF held
                  THEN artifact_api_loop(Tail(items), Append(nodes, init_data_node(record)),
                                         example, exrecs, looked)
                  ELSE Outcome(FALSE, nodes, 0, looked, <<>>)
             ELSE IF record.source = "init_metadata"
             THEN IF held
                  THEN artifact_api_loop(Tail(items),
                                         Append(nodes, init_metadata_node(record)),
                                         example, exrecs, looked)
                  ELSE Outcome(FALSE, nodes, 0, looked, <<>>)
             ELSE IF record.source = "action"
             THEN IF nodes[1].kind = "example"
                  THEN Outcome(TRUE,
                               [nodes EXCEPT ![1].titles = Append(@, "Artifact API"),
                                             ![1].examples = Append(@, example)],
                               1, lookups, <<>>)
                  ELSE Outcome(FALSE, nodes, 1, lookups, <<>>)
             ELSE artifact_api_loop(Tail(items), nodes, example, exrecs, lookups)

\* artifact_api that puts its example into a node of its own
RECURSIVE artifact_api_loop_new_node(_, _, _, _, _)
artifact_api_loop_new_node(items, nodes, example, exrecs, lookups) ==
    IF Len(items) = 0 THEN Outcome(TRUE, nodes, 0, lookups, <<>>)
    ELSE LET record == Head(items)
             held == HasRecord(exrecs, record.ref)
             looked == lookups \cup {[ref |-> record.ref, held |-> held]}
         IN  IF record.source = "init_data"
             THEN IF held
                  THEN artifact_api_loop_new_node(Tail(items),
                                                  Append(nodes, init_data_node(record)),
                                                  example, exrecs, looked)
                  ELSE Outcome(FALSE, nodes, 0, looked, <<>>)
             ELSE IF record.source = "init_metadata"
             THEN IF held
                  THEN artifact_api_loop_new_node(Tail(items),
                                                  Append(nodes, init_metadata_node(record)),
                                                  example, exrecs, looked)
                  ELSE Outcome(FALSE, nodes, 0, looked, <<>>)
             ELSE IF record.source = "action"
             THEN Outcome(TRUE,
                          Append(nodes, UsageExampleNode(<<"Artifact API">>, <<example>>,
                                                         NoSource)),
                          1, lookups, <<>>)
             ELSE artifact_api_loop_new_node(Tail(items), nodes, example, exrecs, lookups)

artifact_api_new_node(recs, new_records, nodes, exrecs) ==
    IF ~new_records.tuple THEN Outcome(FALSE, nodes, 0, {}, <<>>)
    ELSE artifact_api_loop_new_node(new_records.items, nodes,
                                    Render("artifact_api", recs), exrecs, {})

artifact_api(recs, new_records, nodes, exrecs) ==
    IF ~new_records.tuple THEN Outcome(FALSE, nodes, 0, {}, <<>>)
    ELSE artifact_api_loop(new_records.items, nodes, Render("artifact_api", recs),
                           exrecs, {})

\* the two for loops nested the other way round: blocks outer, strategies inner
NextPosition_blocks_outer(si, bi) ==
    IF si < Len(MetaUsage) THEN [s |-> si + 1, b |-> bi, pc |-> "loop"]
    ELSE IF bi < NumBlocks THEN [s |-> 1, b |-> bi + 1, pc |-> "loop"]
    ELSE [s |-> si, b |-> bi, pc |-> "update_nodes"]

\* the control of the two for loops of process_usage_blocks: the position
\* after block b of strategy s
NextPosition(si, bi) ==
    IF bi < NumBlocks THEN [s |-> si, b |-> bi + 1, pc |-> "loop"]
    ELSE IF si < Len(MetaUsage) THEN [s |-> si + 1, b |-> 1, pc |-> "loop"]
    ELSE [s |-> si, b |-> bi, pc |-> "update_nodes"]

\* the second loop of update_nodes: zip(env.usage_blocks, factory nodes of
\* the doctree), a lookup in the execution strategy for each pair
RECURSIVE factory_loop(_, _, _, _, _)
factory_loop(tree, i, pairs, exrecs, lookups) ==
    IF i > Len(tree) \/ pairs = 0 THEN [ok |-> TRUE, tree |-> tree, lookups |-> lookups]
    ELSE IF tree[i].kind # "factory"
         THEN factory_loop(tree, i + 1, pairs, exrecs, lookups)
         ELSE LET held == HasRecord(exrecs, tree[i].ref)
                  looked == lookups \cup {[ref |-> tree[i].ref, held |-> held]}
              IN  IF ~held THEN [ok |-> FALSE, tree |-> tree, lookups |-> looked]
                  ELSE IF GetRecord(exrecs, tree[i].ref).source = "init_metadata"
                       THEN factory_loop([tree EXCEPT ![i].preview = TRUE], i + 1,
                                         pairs - 1, exrecs, looked)
                       ELSE factory_loop(tree, i + 1, pairs - 1, exrecs, looked)

\* the first loop of update_nodes: every placeholder is replaced by the
\* nodes of its block
RECURSIVE replace_self(_, _)
replace_self(blks, i) ==
    IF i > Len(blks) THEN <<>> ELSE blks[i].nodes \o replace_self(blks, i + 1)

update_nodes(blks, exrecs) ==
    factory_loop(replace_self(blks, 1), 1, Len(blks), exrecs, {})

\* ------------------------------------------------------------ the documents
Pushes == [ref : Refs, source : Sources]

\* the use.* calls of one block create records with distinct refs
PushSeqs(n) ==
    UNION {{p \in [1..k -> Pushes] : \A i, j \in 1..k : i # j => p[i].ref # p[j].ref} :
           k \in 0..n}

\* the code of a block: the records its use.* calls create, in order, or
\* text that ast.parse rejects
Codes(n) ==
    {[valid |-> TRUE, pushes |-> p] : p \in PushSeqs(n)}
        \cup {[valid |-> FALSE, pushes |-> <<>>]}

RECURSIVE Programs(_, _)
Programs(n, budget) ==
    IF n = 0 THEN {<<>>}
    ELSE UNION {{<<c>> \o rest : rest \in Programs(n - 1, budget - Len(c.pushes))} :
                c \in Codes(budget)}

\* a block is a factory block (its placeholder carries factory and a name)
\* or a plain one
Placeholders == {UsageNode("", FALSE), UsageNode("a", TRUE)}

NoRecords == [tuple |-> TRUE, items |-> <<>>]

Observed(use, blk, added, new, out, ok, nb, pb, pa, hb) ==
    [use |-> use, block |-> blk, added |-> added, new |-> new,
     renders |-> out.renders, lookups |-> out.lookups, saved |-> out.saved,
     returned |-> out.ok, ok |-> ok, nodes_before |-> nb, nodes_after |-> out.nodes,
     processed_before |-> pb, processed_after |-> pa, handed_before |-> hb]

Init ==
    /\ \E prog \in Programs(NumBlocks, MaxPush) :
       \E ph \in [1..NumBlocks -> Placeholders] :
          blocks = [i \in 1..NumBlocks |->
                        [code |-> prog[i], nodes |-> <<ph[i]>>, tree |-> FALSE]]
    /\ doctree = [i \in 1..NumBlocks |-> blocks[i].nodes[1]]
    /\ base_url \in BaseUrls
    /\ records = [u \in {MetaUsage[i] : i \in 1..Len(MetaUsage)} |-> <<>>]
    /\ processed_records = <<>>
    /\ handed = {}
    /\ pc = "loop"
    /\ s = 1
    /\ b = 1
    /\ trace = <<>>
    /\ saves = <<>>
    /\ last = Observed("none", 0, 0, NoRecords, Outcome(TRUE, <<>>, 0, {}, <<>>),
                       TRUE, <<>>, <<>>, <<>>, {})

\* ------------------------------------------------------------------ actions
Block == blocks[b]

Executed(use) == Exec(Block.code.pushes, records[use])

New(use) == get_new_records(Executed(use), processed_records)

\* ast.parse(block['code']) raises a SyntaxError
SyntaxError ==
    /\ pc = "loop"
    /\ ~Block.code.valid
    /\ pc' = "failed"
    /\ trace' = Append(trace, <<"parse", s, b>>)
    /\ UNCHANGED <<blocks, records, processed_records, handed, doctree, base_url,
                   s, b, saves, last>>

\* one iteration of the inner loop of process_usage_blocks, lines 34-40,
\* with out being what records_to_nodes did
Iterate(use, out) ==
    LET new == New(use)
        upd == update_processed_records(new, processed_records)
        ok == out.ok /\ upd.ok
        after == IF out.ok THEN upd.processed ELSE processed_records
        pos == NextPosition(s, b)
    IN  /\ blocks' = [blocks EXCEPT ![b].tree = TRUE, ![b].nodes = out.nodes]
        /\ records' = [records EXCEPT ![use] = Executed(use)]
        /\ trace' = trace \o <<<<"parse", s, b>>, <<"exec", s, b>>, <<"dispatch", s, b>>>>
        /\ saves' = saves \o out.saved
        /\ last' = Observed(use, b, Len(Executed(use)) - Len(records[use]), new, out, ok,
                            Block.nodes, processed_records, after, handed)
        /\ IF ok
           THEN /\ pc' = pos.pc
                /\ s' = pos.s
                /\ b' = pos.b
                /\ processed_records' = IF pos.s # s THEN <<>> ELSE after
                /\ handed' = IF pos.s # s THEN {} ELSE handed \cup RefsOf(new.items)
           ELSE /\ pc' = "failed"
                /\ processed_records' = after
                /\ handed' = handed \cup RefsOf(new.items)
                /\ UNCHANGED <<s, b>>
        /\ UNCHANGED <<doctree, base_url>>

Diagnostic ==
    /\ pc = "loop" /\ MetaUsage[s] = "diagnostic" /\ Block.code.valid
    /\ Iterate("diagnostic", diagnostic(New("diagnostic"), Block.nodes))

\* UsageExampleNode(titles=..., examples=...) is given no source: whether the
\* node it makes has none, or the one of its document, is decided outside
\* usage.py, so both are possible
Cli ==
    /\ pc = "loop" /\ MetaUsage[s] = "cli" /\ Block.code.valid
    /\ \E source \in {NoSource, DocSource} :
          Iterate("cli", cli(Executed("cli"), New("cli"), Block.nodes, source))

ArtifactApi ==
    /\ pc = "loop" /\ MetaUsage[s] = "artifact_api" /\ Block.code.valid
    /\ Iterate("artifact_api",
               artifact_api(Executed("artifact_api"), New("artifact_api"), Block.nodes,
                            records["execution"]))

Execution ==
    /\ pc = "loop" /\ MetaUsage[s] = "execution" /\ Block.code.valid
    /\ Iterate("execution", execution(New("execution"), Block.nodes, base_url))

UpdateNodes ==
    /\ pc = "update_nodes"
    /\ LET res == update_nodes(blocks, records["execution"])
       IN  /\ doctree' = res.tree
           /\ pc' = IF res.ok THEN "done" ELSE "failed"
           /\ last' = Observed("update_nodes", 0, 0, NoRecords,
                               Outcome(res.ok, <<>>, 0, res.lookups, <<>>), res.ok,
                               <<>>, processed_records, processed_records, handed)
    /\ trace' = Append(trace, <<"update_nodes", 0, 0>>)
    /\ UNCHANGED <<blocks, records, processed_records, handed, base_url, s, b, saves>>

Next == SyntaxError \/ Diagnostic \/ Cli \/ ArtifactApi \/ Execution \/ UpdateNodes

Spec == Init /\ [][Next]_vars

\* ------------------------------------------------------------ properties
Strategies == {MetaUsage[i] : i \in 1..Len(MetaUsage)}

Index(use) == CHOOSE i \in 1..Len(MetaUsage) : MetaUsage[i] = use

Steps == <<"parse", "exec", "dispatch">>

Dispatches == Len(MetaUsage) * NumBlocks

\* strategies outer, blocks inner, three steps for each, update_nodes last
ExpectedTrace ==
    [i \in 1..(Len(Steps) * Dispatches + 1) |->
        IF i > Len(Steps) * Dispatches THEN <<"update_nodes", 0, 0>>
        ELSE LET k == (i - 1) \div Len(Steps)
             IN  <<Steps[((i - 1) % Len(Steps)) + 1], (k \div NumBlocks) + 1,
                   (k % NumBlocks) + 1>>]

HasSource(items, source) == \E i \in 1..Len(items) : items[i].source = source

InitSources == {"init_data", "init_metadata"}

\* base_url without its trailing slashes, by its defining property
Stripped(str) ==
    CHOOSE p \in {SubSeq(str, 1, k) : k \in 0..Len(str)} :
        /\ \A i \in (Len(p) + 1)..Len(str) : str[i] = "/"
        /\ (Len(p) > 0 => p[Len(p)] # "/")

\* C1: while the run has not failed the parse, exec and dispatch steps happen
\* in the order strategy by strategy, block by block within a strategy, each
\* (strategy, block) once, and a finished run has done all of them and then
\* update_nodes, once, as its last step.
C1_StrategyMajorOrder ==
    /\ pc # "failed" => /\ Len(trace) <= Len(ExpectedTrace)
                        /\ trace = SubSeq(ExpectedTrace, 1, Len(trace))
    /\ pc = "done" => trace = ExpectedTrace
    /\ pc = "loop" => Len(trace) = Len(Steps) * ((s - 1) * NumBlocks + (b - 1))

C1_Witness ==
    /\ pc = "done"
    /\ \E i \in 1..NumBlocks : Len(blocks[i].code.pushes) >= 2

\* C2: the records handed to records_to_nodes for a block hold no ref that
\* was handed to it for an earlier block of the same pass, and no ref is
\* saved twice.
C2_NoRecordHandedTwice ==
    /\ RefsOf(last.new.items) \cap last.handed_before = {}
    /\ \A i, j \in 1..Len(saves) : i # j => saves[i].ref # saves[j].ref

C2_Witness ==
    /\ last.use = "execution"
    /\ last.ok
    /\ last.block > 1
    /\ RefsOf(blocks[last.block].code.pushes) \cap last.handed_before # {}
    /\ Len(saves) >= 2

\* C3: under the command-line strategy a block whose new records hold an
\* action record gets one render call and the node list [example node with
\* titles ["Command Line"] and one example]; a block without a new action
\* record gets no render call and keeps its node list.
C3_CliRendersOnce ==
    last.use = "cli" =>
        IF HasSource(last.new.items, "action")
        THEN /\ last.renders = 1
             /\ Len(last.nodes_after) = 1
             /\ last.nodes_after[1].kind = "example"
             /\ last.nodes_after[1].titles = <<"Command Line">>
             /\ Len(last.nodes_after[1].examples) = 1
        ELSE /\ last.renders = 0
             /\ last.nodes_after = last.nodes_before

C3_Witness ==
    /\ last.use = "cli"
    /\ Len(SelectSeq(last.new.items, LAMBDA r : r.source = "action")) >= 2
    /\ last.renders = 1

\* C4: when the artifact-API strategy has processed a block with a new action
\* record, the block still has one example node, the first node, with titles
\* ["Command Line", "Artifact API"] and two examples; it keeps them to the
\* end of the run; titles and examples of every example node have the same
\* length.
C4_ArtifactApiExtendsExample ==
    /\ \A i \in 1..NumBlocks : \A j \in 1..Len(blocks[i].nodes) :
          Len(blocks[i].nodes[j].titles) = Len(blocks[i].nodes[j].examples)
    /\ (last.use = "artifact_api" /\ last.returned /\ HasSource(last.new.items, "action")) =>
          /\ Len(SelectSeq(last.nodes_after, LAMBDA n : n.kind = "example")) = 1
          /\ Len(last.nodes_after) = Len(last.nodes_before)
          /\ last.nodes_after[1].kind = "example"
          /\ last.nodes_after[1].titles = <<"Command Line", "Artifact API">>
          /\ Len(last.nodes_after[1].examples) = Len(last.nodes_after[1].titles)
    /\ (pc \in {"update_nodes", "done"} \/ (pc = "loop" /\ s > Index("artifact_api"))) =>
          \A i \in 1..NumBlocks :
             blocks[i].nodes[1].kind = "example" =>
                blocks[i].nodes[1].titles = <<"Command Line", "Artifact API">>

C4_Witness ==
    /\ pc = "done"
    /\ \E i \in 1..NumBlocks : blocks[i].nodes[1].kind = "example"

C6_NoRecordNoChange ==
    (last.use \in Strategies /\ last.added = 0) =>
        /\ Len(last.nodes_after) = Len(last.nodes_before)
        /\ last.processed_after = last.processed_before

C6_Witness ==
    /\ last.use = "execution"
    /\ last.added = 0
    /\ last.nodes_before[1].factory
    /\ last.processed_before # <<>>

\* C7: every init_data or init_metadata record that the artifact-API
\* strategy marks processed has a data or metadata node in the node list of
\* the block.
C7_InitRecordsGetNodes ==
    last.use = "artifact_api" =>
        \A i \in 1..Len(last.new.items) :
            LET record == last.new.items[i]
            IN  (record.source \in InitSources /\ InSeq(record.ref, last.processed_after)) =>
                    \E k \in 1..NumBlocks : \E j \in 1..Len(blocks[k].nodes) :
                        /\ blocks[k].nodes[j].kind \in {"data", "metadata"}
                        /\ blocks[k].nodes[j].name = record.ref

\* C8: the execution handler saves every record it is handed, whatever its
\* source, to <out_dir>/<doc_name>/results/<ref>.qza, and the handlers of
\* the other strategies save nothing.
C8_ExecutionSavesEveryRecord ==
    /\ last.use # "execution" => last.saved = <<>>
    /\ \A i \in 1..Len(saves) : saves[i].use = "execution"
    /\ (last.use = "execution" /\ last.returned) =>
          /\ Len(last.saved) = Len(last.new.items)
          /\ \A i \in 1..Len(last.new.items) :
                /\ last.saved[i].ref = last.new.items[i].ref
                /\ last.saved[i].source = last.new.items[i].source
                /\ last.saved[i].path =
                      [dir |-> <<OutDir, DocSource[Len(DocSource)].stem, "results">>,
                       file |-> <<last.new.items[i].ref, ".qza">>]

C8_Witness ==
    /\ last.use = "execution"
    /\ last.returned
    /\ HasSource(last.new.items, "action")
    /\ HasSource(last.saved, "action")

\* C9: get_new_records returns a tuple holding the records whose keys are
\* not in the processed list, in map order, for zero, one and several new
\* keys.
C9_NewRecordsIsTuple ==
    last.use \in Strategies =>
        /\ last.new.tuple
        /\ last.new.items =
              SelectSeq(records[last.use], LAMBDA r : ~InSeq(r.ref, last.processed_before))

\* C10: whenever a ref is looked up in the execution strategy, by
\* init_data_node, init_metadata_node or update_nodes, the execution
\* strategy holds a record for it.
C10_LookupAfterExecution ==
    \A l \in last.lookups : l.held

====
